---- MODULE Spec2Model ----
(***************************************************************************)
(* SecurityMonitor of src/utils/security_utils.py: the sliding-window      *)
(* brute-force detector and the tumbling-window anomaly detector.          *)
(*                                                                         *)
(* LoginSpec, AnomalySpec, Spec                                            *)
(*     every public operation is one step (its body runs inside            *)
(*     `with self._lock`); the wall clock advances between calls.          *)
(* ThreadSpec                                                              *)
(*     request threads run the operations statement by statement and       *)
(*     take and release self._lock.                                        *)
(* CleanupSpec                                                             *)
(*     init_extensions (extensions.py), the cleanup_loop thread and the    *)
(*     requests screened by check_security_threats.                        *)
(* AuthSpec                                                                *)
(*     google_signin (blueprints/auth.py) run by two request threads       *)
(*     beside the cleanup thread.                                          *)
(***************************************************************************)
EXTENDS Integers, Sequences, FiniteSets, TLC

\* ---------------------------------------------------------------- bounds
\* The configuration attributes are instance fields (defaults 5 / 300 / 50,
\* security_utils.py:32-34) that callers may override; the model draws them
\* from 1..Max* so that every threshold case is reached with short runs.
MaxAttempts == 3
MaxWindow == 2
MaxThreshold == 2
\* last value of the wall clock
MaxTime == 3
\* locked calls the request threads make in one run of ThreadSpec
MaxCalls == 3

Threads == {"t1", "t2"}
NoThread == "none"
IPs == {"ipA", "ipB"}
Endpoints == {"ep1", "ep2"}

VARIABLES
    failed_attempts,      \* self._failed_attempts : IP -> deque of timestamps
    suspicious_ips,       \* self._suspicious_ips  : set of IPs
    request_patterns,     \* self._request_patterns: IP -> endpoint -> count
    max_failed_attempts,  \* self.max_failed_attempts
    failed_attempt_window,\* self.failed_attempt_window
    anomaly_threshold,    \* self.anomaly_threshold
    clock,                \* time.time()
    result,               \* value returned by the last bool-returning call
    stats,                \* value returned by get_stats() while it is the
                          \*   most recent call, NoStats otherwise
    \* call history (observers, never read by the operations)
    run,                  \* IP -> failed logins since the log was last empty
                          \*       (-1: an entry expired inside the run)
    clean,                \* IP -> the run began on an empty log, IP not flagged
    expired,              \* IP -> the run began after all failures had expired
    pardoned,             \* IP -> the run began by pardoning a flagged IP
    ledger,               \* IP -> the times of the record_failed_login calls
                          \*       since the last record_successful_login that
                          \*       were inside the window at the latest of them
    requests,             \* IP -> endpoint -> record_request calls since the
                          \*       last cleanup_old_data
    phase,                \* IP -> endpoint -> "none" | "calm" | "tripped" |
                          \*   "reset": what check_anomaly returned last, and
                          \*   whether cleanup_old_data ran after a trip
    \* threads (ThreadSpec)
    lock,                 \* self._lock: the thread that holds it, or NoThread
    pc,                   \* thread -> the statement it is at
    frame,                \* thread -> its arguments and local variables
    calls,                \* number of locked calls begun so far
    span,                 \* history: IP -> failed logins completed since the
                          \*   last pardon (-1: not all inside one window),
                          \*   time of the first, calling threads
    serial,               \* history: the tables if every call made so far had
                          \*   run alone, in the order the lock was taken
    flags_before,         \* history: the suspicious set of `serial` before the
                          \*   call that took the lock last
    done,                 \* history: the call that returned in the last step
                          \*   of a thread, NoCall after any other step
    \* the application around the monitor (CleanupSpec, AuthSpec)
    ratelimit_enabled,    \* app.config['RATELIMIT_ENABLED']
    booted,               \* init_extensions(app) has run
    cleaner,              \* the cleanup_loop thread: "none" (not started),
                          \*   "sleeping" (in time.sleep) or "running"
    signin_enabled,       \* google_signin_service.enabled
    guesses,              \* IP -> the times at which signin_token handed a
                          \*       credential of the IP to verify_google_token,
                          \*       as far as they lie within one window
    gate,                 \* request thread -> its check_security_threats call
                          \*       (ord: which request of the cycle it recorded,
                          \*       0 once a cleanup has run since)
    cycle,                \* IP -> endpoint -> requests recorded and requests
                          \*       let through since the last cleanup
    auth                  \* request thread -> its google_signin request: the
                          \*   statement it is at, the client IP, the outcomes
                          \*   recorded so far, the status code answered

tables == <<failed_attempts, suspicious_ips, request_patterns>>
config == <<max_failed_attempts, failed_attempt_window, anomaly_threshold>>
login_history == <<run, clean, expired, pardoned, ledger>>
anomaly_history == <<requests, phase>>
threads == <<lock, pc, frame, calls, span, serial, flags_before, done>>
gates == <<gate, cycle>>
application ==
    <<ratelimit_enabled, booted, cleaner, signin_enabled, auth, guesses, gates>>
vars == <<tables, config, application, clock, result, stats, login_history,
          anomaly_history, threads>>

\* ------------------------------------------------------------ dictionaries
EmptyDict == <<>>

Store(d, k, v) == [i \in (DOMAIN d) \cup {k} |-> IF i = k THEN v ELSE d[i]]

\* defaultdict(deque).__getitem__: a missing key reads as an empty deque
GetAttempts(fa, ip) == IF ip \in DOMAIN fa THEN fa[ip] ELSE <<>>

\* defaultdict(lambda: defaultdict(int))[ip][endpoint]: missing reads as 0
GetCount(rp, ip, ep) ==
    IF ip \in DOMAIN rp /\ ep \in DOMAIN rp[ip] THEN rp[ip][ep] ELSE 0

\* ... and the read (or the +=) leaves both entries in the table
StoreCount(rp, ip, ep, n) ==
    Store(rp, ip, Store(IF ip \in DOMAIN rp THEN rp[ip] ELSE EmptyDict, ep, n))

\* mutant: the read puts the default value in place of the count
ResetCount(rp, ip, ep) == StoreCount(rp, ip, ep, 0)

\* check_anomaly: count = self._request_patterns[ip][endpoint] creates the
\* entries it does not find and leaves the count it finds
TouchCount(rp, ip, ep) == StoreCount(rp, ip, ep, GetCount(rp, ip, ep))

\* ---------------------------------------------------------- failure log
\* mutant: `if` instead of `while`, one entry is dropped at most
PruneOne(attempts, now) ==
    IF attempts # <<>> /\ Head(attempts) < now - failed_attempt_window
    THEN Tail(attempts)
    ELSE attempts

\* mutant: `<=` instead of `<`, the entry on the edge of the window is dropped
RECURSIVE PruneThrough(_, _)
PruneThrough(attempts, now) ==
    IF attempts # <<>> /\ Head(attempts) <= now - failed_attempt_window
    THEN PruneThrough(Tail(attempts), now)
    ELSE attempts

\* mutant: the pruning loop never runs
PruneNothing(attempts, now) == attempts

\* while attempts and attempts[0] < now - self.failed_attempt_window: popleft
RECURSIVE PruneOld(_, _)
PruneOld(attempts, now) ==
    IF attempts # <<>> /\ Head(attempts) < now - failed_attempt_window
    THEN PruneOld(Tail(attempts), now)
    ELSE attempts

\* mutant: appendleft instead of append
AppendLeft(attempts, now) == <<now>> \o attempts

\* mutant: a failure at the time of the previous one is not recorded again
AppendUnlessSameTime(attempts, now) ==
    IF attempts # <<>> /\ attempts[Len(attempts)] = now
    THEN attempts
    ELSE Append(attempts, now)

\* attempts.append(now)
AppendAttempt(attempts, now) == Append(attempts, now)

\* mutant: > instead of >=
ThresholdExceeded(attempts) == Len(attempts) > max_failed_attempts

\* len(attempts) >= self.max_failed_attempts
ThresholdReached(attempts) == Len(attempts) >= max_failed_attempts

\* the deque of ip when record_failed_login(ip) leaves the lock
LoginLog(fa, ip, now) == AppendAttempt(PruneOld(GetAttempts(fa, ip), now), now)

\* mutant: the flag is set outside the threshold test
FlagAlways(susp, ip, blocked) == susp \cup {ip}

\* self._suspicious_ips.add(ip_address) when the threshold is reached
FlagIp(susp, ip, blocked) == IF blocked THEN susp \cup {ip} ELSE susp

\* mutant: the deque is cleared through the defaultdict, without the `in` test
ClearLogLookup(fa, ip) == Store(fa, ip, <<>>)

\* mutant: popleft instead of clear, only the oldest entry is forgotten
ClearLogHead(fa, ip) ==
    IF ip \in DOMAIN fa /\ fa[ip] # <<>>
    THEN [fa EXCEPT ![ip] = Tail(@)]
    ELSE fa

\* mutant: the deque is not cleared
KeepLog(fa, ip) == fa

\* record_successful_login: clear the deque (the key stays), drop the flag
ClearLog(fa, ip) == IF ip \in DOMAIN fa THEN [fa EXCEPT ![ip] = <<>>] ELSE fa

\* mutant: the whole set is cleared
UnflagAll(susp, ip) == {}

\* self._suspicious_ips.remove(ip_address), if present
Unflag(susp, ip) == susp \ {ip}

\* mutant: the keys of the emptied deques are not deleted
CleanLogsKeepEmpty(fa, now) == [ip \in DOMAIN fa |-> PruneOld(fa[ip], now)]

\* cleanup_old_data: prune every deque, delete the keys whose deque is empty
CleanLogs(fa, now) ==
    [ip \in {i \in DOMAIN fa : PruneOld(fa[i], now) # <<>>} |->
        PruneOld(fa[ip], now)]

\* mutant: the counters are set to zero, the entries stay
ZeroPatterns(rp) == [i \in DOMAIN rp |-> [e \in DOMAIN rp[i] |-> 0]]

\* mutant: the counters survive the cleanup
KeepPatterns(rp) == rp

\* cleanup_old_data: self._request_patterns.clear()
ClearPatterns(rp) == EmptyDict

\* mutant: >= instead of >
AnomalousAtThreshold(count) == count >= anomaly_threshold

\* count > self.anomaly_threshold
IsAnomalous(count) == count > anomaly_threshold

\* get_stats: the three sizes
Snapshot(fa, susp, rp) ==
    [suspicious_ips |-> Cardinality(susp),
     monitored_ips |-> Cardinality(DOMAIN fa),
     total_patterns |-> Cardinality({<<i, e>> \in IPs \X Endpoints :
                                       i \in DOMAIN rp /\ e \in DOMAIN rp[i]})]

\* mutant: the answer is worked out from the failure log
IsIpSuspiciousByLog(ip) ==
    Len(GetAttempts(failed_attempts, ip)) >= max_failed_attempts

\* return ip_address in self._suspicious_ips
IsIpSuspicious(ip) == ip \in suspicious_ips

\* no get_stats() result at hand
NoStats == [suspicious_ips |-> -1, monitored_ips |-> -1, total_patterns |-> -1]

\* a thread outside every call, and an IP with no failed login on record
NoFrame == [ip |-> "", ep |-> "", now |-> 0, count |-> 0, todo |-> {}]
NoSpan == [n |-> 0, first |-> 0, by |-> {}]
NoCall == [op |-> "", ip |-> ""]

\* a request thread that is not inside google_signin
NoGate == [pc |-> "idle", ip |-> "", ep |-> "", ord |-> 0, status |-> 0]
NoCycle == [arrived |-> 0, admitted |-> 0]
NoRequest == [pc |-> "idle", ip |-> "", failed |-> 0, ok |-> 0, status |-> 0]

\* ------------------------------------------------------------------- Init
Init ==
    /\ failed_attempts = EmptyDict
    /\ suspicious_ips = {}
    /\ request_patterns = EmptyDict
    /\ max_failed_attempts \in 1..MaxAttempts
    /\ failed_attempt_window \in 1..MaxWindow
    /\ anomaly_threshold \in 1..MaxThreshold
    /\ clock = 0
    /\ result = FALSE
    /\ stats = NoStats
    /\ run = [i \in IPs |-> 0]
    /\ clean = [i \in IPs |-> TRUE]
    /\ expired = [i \in IPs |-> FALSE]
    /\ pardoned = [i \in IPs |-> FALSE]
    /\ ledger = [i \in IPs |-> <<>>]
    /\ requests = [i \in IPs |-> [e \in Endpoints |-> 0]]
    /\ phase = [i \in IPs |-> [e \in Endpoints |-> "none"]]
    /\ lock = NoThread
    /\ pc = [t \in Threads |-> "idle"]
    /\ frame = [t \in Threads |-> NoFrame]
    /\ calls = 0
    /\ span = [i \in IPs |-> NoSpan]
    /\ serial = <<EmptyDict, {}, EmptyDict>>
    /\ flags_before = {}
    /\ done = NoCall
    /\ ratelimit_enabled \in BOOLEAN
    /\ booted = FALSE
    /\ cleaner = "none"
    /\ signin_enabled \in BOOLEAN
    /\ guesses = [i \in IPs |-> <<>>]
    /\ gate = [h \in Threads |-> NoGate]
    /\ cycle = [i \in IPs |-> [e \in Endpoints |-> NoCycle]]
    /\ auth = [t \in Threads |-> NoRequest]

\* ------------------------------------------------------------- operations
\* time passes between two calls
Tick ==
    /\ clock < MaxTime
    /\ clock' = clock + 1
    /\ UNCHANGED <<tables, config, application, result, stats, login_history, anomaly_history,
                   threads>>

record_failed_login(ip) ==
    LET now == clock
        before == GetAttempts(failed_attempts, ip)
        attempts == LoginLog(failed_attempts, ip, now)
        blocked == ThresholdReached(attempts)
        \* history: how many earlier failures are still inside the window
        InWindow(ts) == ts >= now - failed_attempt_window
        alive == Len(SelectSeq(before, InWindow))
    IN  /\ Len(before) <= max_failed_attempts      \* keeps the log finite
        /\ failed_attempts' = Store(failed_attempts, ip, attempts)
        /\ suspicious_ips' = FlagIp(suspicious_ips, ip, blocked)
        /\ result' = blocked
        /\ run' = [run EXCEPT ![ip] =
                     IF alive = 0 THEN 1
                     ELSE IF alive < Len(before) \/ @ = -1 THEN -1
                     ELSE @ + 1]
        /\ clean' = [clean EXCEPT ![ip] =
                     IF alive = 0
                     THEN before = <<>> /\ ip \notin suspicious_ips
                     ELSE @]
        /\ expired' = [expired EXCEPT ![ip] =
                     IF alive = 0 /\ before # <<>> THEN TRUE ELSE @]
        /\ pardoned' = [pardoned EXCEPT ![ip] = FALSE]
        /\ ledger' = [ledger EXCEPT ![ip] =
                         SelectSeq(Append(@, now),
                                   LAMBDA ts : ts >= now - failed_attempt_window)]
        /\ stats' = NoStats
        /\ UNCHANGED <<request_patterns, config, application, clock, anomaly_history,
                       threads>>

record_successful_login(ip) ==
    /\ failed_attempts' = ClearLog(failed_attempts, ip)
    /\ suspicious_ips' = Unflag(suspicious_ips, ip)
    /\ run' = [run EXCEPT ![ip] = 0]
    /\ expired' = [expired EXCEPT ![ip] = FALSE]
    /\ pardoned' = [pardoned EXCEPT ![ip] = ip \in suspicious_ips]
    /\ ledger' = [ledger EXCEPT ![ip] = <<>>]
    /\ stats' = NoStats
    /\ UNCHANGED <<request_patterns, config, application, clock, result, clean,
                   anomaly_history, threads>>

is_ip_suspicious(ip) ==
    /\ result' = IsIpSuspicious(ip)
    /\ stats' = NoStats
    /\ UNCHANGED <<tables, config, application, clock, login_history, anomaly_history,
                   threads>>

record_request(ip, ep) ==
    LET count == GetCount(request_patterns, ip, ep)
    IN  /\ count <= anomaly_threshold               \* keeps the counter finite
        /\ request_patterns' = StoreCount(request_patterns, ip, ep, count + 1)
        /\ requests' = [requests EXCEPT ![ip][ep] = @ + 1]
        /\ phase' = [phase EXCEPT ![ip][ep] =
                       IF @ \in {"reset", "calm"} THEN "none" ELSE @]
        /\ stats' = NoStats
        /\ UNCHANGED <<failed_attempts, suspicious_ips, config, application, clock, result,
                       login_history, threads>>

check_anomaly(ip, ep) ==
    LET count == GetCount(request_patterns, ip, ep)
    IN  /\ request_patterns' = TouchCount(request_patterns, ip, ep)
        /\ result' = IsAnomalous(count)
        /\ phase' = [phase EXCEPT ![ip][ep] =
                       IF IsAnomalous(count) THEN "tripped"
                       ELSE IF @ = "none" THEN "calm" ELSE @]
        /\ stats' = NoStats
        /\ UNCHANGED <<failed_attempts, suspicious_ips, config, application, clock,
                       login_history, requests, threads>>

cleanup_old_data ==
    LET now == clock
        InWindow(ts) == ts >= now - failed_attempt_window
        Before(i) == GetAttempts(failed_attempts, i)
        Alive(i) == Len(SelectSeq(Before(i), InWindow))
    IN  /\ failed_attempts' = CleanLogs(failed_attempts, now)
        /\ request_patterns' = ClearPatterns(request_patterns)
        /\ run' = [i \in IPs |->
                     IF Alive(i) = 0 THEN 0
                     ELSE IF Alive(i) < Len(Before(i)) THEN -1
                     ELSE run[i]]
        /\ expired' = [i \in IPs |->
                     IF Alive(i) = 0 /\ Before(i) # <<>> THEN TRUE
                     ELSE expired[i]]
        /\ requests' = [i \in IPs |-> [e \in Endpoints |-> 0]]
        /\ phase' = [i \in IPs |-> [e \in Endpoints |->
                       IF phase[i][e] = "tripped" THEN "reset"
                       ELSE IF phase[i][e] = "calm" THEN "none"
                       ELSE phase[i][e]]]
        /\ stats' = NoStats
        /\ UNCHANGED <<suspicious_ips, config, application, clock, result, clean,
                       pardoned, ledger, threads>>

get_stats ==
    /\ stats' = Snapshot(failed_attempts, suspicious_ips, request_patterns)
    /\ UNCHANGED <<tables, config, application, clock, result, login_history, anomaly_history,
                   threads>>

Next ==
    \/ Tick
    \/ \E ip \in IPs : record_failed_login(ip)
    \/ \E ip \in IPs : record_successful_login(ip)
    \/ \E ip \in IPs : is_ip_suspicious(ip)
    \/ \E ip \in IPs, ep \in Endpoints : record_request(ip, ep)
    \/ \E ip \in IPs, ep \in Endpoints : check_anomaly(ip, ep)
    \/ cleanup_old_data
    \/ get_stats

Spec == Init /\ [][Next]_vars


\* ---------------------------------------------------------------- threads
\* mutant: the lock is not waited for
LockIgnored == TRUE

\* `with self._lock:` blocks until no thread holds the lock
LockFree == lock = NoThread

Enter(t, label, fr) ==
    /\ pc[t] = "idle"
    /\ LockFree
    /\ lock' = t
    /\ pc' = [pc EXCEPT ![t] = label]
    /\ frame' = [frame EXCEPT ![t] = fr]
    /\ calls < MaxCalls
    /\ calls' = calls + 1
    /\ stats' = NoStats
    /\ flags_before' = serial[2]
    /\ done' = NoCall

\* leaving the with block releases the lock
Leave(t) ==
    /\ lock' = NoThread
    /\ pc' = [pc EXCEPT ![t] = "idle"]
    /\ frame' = [frame EXCEPT ![t] = NoFrame]
    /\ done' = [op |-> pc[t], ip |-> frame[t].ip]
    /\ UNCHANGED <<calls, flags_before>>

Goto(t, label) ==
    /\ pc' = [pc EXCEPT ![t] = label]
    /\ done' = NoCall
    /\ UNCHANGED <<lock, frame, calls, flags_before>>

history == <<login_history, anomaly_history>>

\* record_failed_login, lines 44-46: lock, clock, defaultdict lookup
rfl_enter(t, ip) ==
    /\ Len(GetAttempts(failed_attempts, ip)) <= max_failed_attempts
    /\ Enter(t, "rfl_prune", [NoFrame EXCEPT !.ip = ip, !.now = clock])
    /\ failed_attempts' = Store(failed_attempts, ip, GetAttempts(failed_attempts, ip))
    /\ serial' = <<Store(serial[1], ip, LoginLog(serial[1], ip, clock)),
                   FlagIp(serial[2], ip, ThresholdReached(LoginLog(serial[1], ip, clock))),
                   serial[3]>>
    /\ UNCHANGED <<suspicious_ips, request_patterns, config, application, clock, result,
                   history, span>>

\* lines 49-50: the pruning loop
rfl_prune(t) ==
    /\ pc[t] = "rfl_prune"
    /\ failed_attempts' = Store(failed_attempts, frame[t].ip,
            PruneOld(GetAttempts(failed_attempts, frame[t].ip), frame[t].now))
    /\ Goto(t, "rfl_append")
    /\ UNCHANGED <<suspicious_ips, request_patterns, config, application, clock, result,
                   stats, history, span, serial>>

\* line 53
rfl_append(t) ==
    /\ pc[t] = "rfl_append"
    /\ failed_attempts' = Store(failed_attempts, frame[t].ip,
            AppendAttempt(GetAttempts(failed_attempts, frame[t].ip), frame[t].now))
    /\ Goto(t, "rfl_check")
    /\ UNCHANGED <<suspicious_ips, request_patterns, config, application, clock, result,
                   stats, history, span, serial>>

\* lines 56-67: threshold test, flag, return
rfl_check(t) ==
    LET ip == frame[t].ip
        blocked == ThresholdReached(GetAttempts(failed_attempts, ip))
    IN  /\ pc[t] = "rfl_check"
        /\ suspicious_ips' = FlagIp(suspicious_ips, ip, blocked)
        /\ result' = blocked
        /\ span' = [span EXCEPT ![ip] =
                      IF @.n = 0
                      THEN [n |-> 1, first |-> frame[t].now, by |-> {t}]
                      ELSE IF @.n = -1 \/ frame[t].now - @.first > failed_attempt_window
                      THEN [NoSpan EXCEPT !.n = -1]
                      ELSE [@ EXCEPT !.n = @ + 1, !.by = @ \cup {t}]]
        /\ Leave(t)
        /\ UNCHANGED <<failed_attempts, request_patterns, config, application, clock, stats,
                       history, serial>>

\* record_successful_login, lines 71-73
rsl_enter(t, ip) ==
    /\ Enter(t, "rsl_unflag", [NoFrame EXCEPT !.ip = ip])
    /\ failed_attempts' = ClearLog(failed_attempts, ip)
    /\ serial' = <<ClearLog(serial[1], ip), Unflag(serial[2], ip), serial[3]>>
    /\ UNCHANGED <<suspicious_ips, request_patterns, config, application, clock, result,
                   history, span>>

\* lines 74-75
rsl_unflag(t) ==
    /\ pc[t] = "rsl_unflag"
    /\ suspicious_ips' = Unflag(suspicious_ips, frame[t].ip)
    /\ span' = [span EXCEPT ![frame[t].ip] = NoSpan]
    /\ Leave(t)
    /\ UNCHANGED <<failed_attempts, request_patterns, config, application, clock, result,
                   stats, history, serial>>

\* mutant: the read goes through the defaultdict of failure logs
thread_is_ip_suspicious_lookup(t, ip) ==
    /\ pc[t] = "idle"
    /\ result' = IsIpSuspicious(ip)
    /\ stats' = NoStats
    /\ done' = [op |-> "is_ip_suspicious", ip |-> ip]
    /\ failed_attempts' = Store(failed_attempts, ip, GetAttempts(failed_attempts, ip))
    /\ UNCHANGED <<suspicious_ips, request_patterns, config, application, clock, history,
                   lock, pc, frame, calls, span, serial, flags_before>>

\* is_ip_suspicious, line 79: no lock is taken
thread_is_ip_suspicious(t, ip) ==
    /\ pc[t] = "idle"
    /\ result' = IsIpSuspicious(ip)
    /\ stats' = NoStats
    /\ done' = [op |-> "is_ip_suspicious", ip |-> ip]
    /\ UNCHANGED <<tables, config, application, clock, history, lock, pc, frame, calls,
                   span, serial, flags_before>>

\* record_request, lines 83-84: the read half of `+= 1`
rr_enter(t, ip, ep) ==
    LET count == GetCount(request_patterns, ip, ep)
    IN  /\ count <= anomaly_threshold
        /\ Enter(t, "rr_store", [NoFrame EXCEPT !.ip = ip, !.ep = ep,
                                                !.count = count])
        /\ request_patterns' = StoreCount(request_patterns, ip, ep, count)
        /\ serial' = <<serial[1], serial[2],
                       StoreCount(serial[3], ip, ep, GetCount(serial[3], ip, ep) + 1)>>
        /\ UNCHANGED <<failed_attempts, suspicious_ips, config, application, clock, result,
                       history, span>>

\* line 84: the write half
rr_store(t) ==
    /\ pc[t] = "rr_store"
    /\ request_patterns' = StoreCount(request_patterns, frame[t].ip, frame[t].ep,
                                      frame[t].count + 1)
    /\ Leave(t)
    /\ UNCHANGED <<failed_attempts, suspicious_ips, config, application, clock, result,
                   stats, history, span, serial>>

\* check_anomaly, lines 93-94
ca_enter(t, ip, ep) ==
    LET count == GetCount(request_patterns, ip, ep)
    IN  /\ Enter(t, "ca_test", [NoFrame EXCEPT !.ip = ip, !.ep = ep,
                                               !.count = count])
        /\ request_patterns' = TouchCount(request_patterns, ip, ep)
        /\ serial' = <<serial[1], serial[2], TouchCount(serial[3], ip, ep)>>
        /\ UNCHANGED <<failed_attempts, suspicious_ips, config, application, clock, result,
                       history, span>>

\* lines 97-101
ca_test(t) ==
    /\ pc[t] = "ca_test"
    /\ result' = IsAnomalous(frame[t].count)
    /\ Leave(t)
    /\ UNCHANGED <<tables, config, application, clock, stats, history, span, serial>>

\* cleanup_old_data, lines 105-109: lock, clock, list(items())
cu_enter(t) ==
    /\ Enter(t, "cu_logs", [NoFrame EXCEPT !.now = clock,
                                           !.todo = DOMAIN failed_attempts])
    /\ serial' = <<CleanLogs(serial[1], clock), serial[2], ClearPatterns(serial[3])>>
    /\ UNCHANGED <<tables, config, application, clock, result, history, span>>

\* lines 109-113: one round of the for loop
cu_logs(t) ==
    /\ pc[t] = "cu_logs"
    /\ \E ip \in frame[t].todo :
        LET kept == PruneOld(GetAttempts(failed_attempts, ip), frame[t].now)
        IN  /\ failed_attempts' =
                  IF kept = <<>>
                  THEN [i \in (DOMAIN failed_attempts) \ {ip} |-> failed_attempts[i]]
                  ELSE Store(failed_attempts, ip, kept)
            /\ frame' = [frame EXCEPT ![t].todo = @ \ {ip}]
    /\ done' = NoCall
    /\ UNCHANGED <<suspicious_ips, request_patterns, config, application, clock, result,
                   stats, history, lock, pc, calls, span, serial,
                   flags_before>>

\* mutant: the cleanup also drops the flag of every IP left without a log
cu_patterns_unflag(t) ==
    /\ pc[t] = "cu_logs"
    /\ frame[t].todo = {}
    /\ request_patterns' = ClearPatterns(request_patterns)
    /\ suspicious_ips' = suspicious_ips \cap DOMAIN failed_attempts
    /\ Leave(t)
    /\ UNCHANGED <<failed_attempts, config, application, clock, result,
                   stats, history, span, serial>>

\* line 116
cu_patterns(t) ==
    /\ pc[t] = "cu_logs"
    /\ frame[t].todo = {}
    /\ request_patterns' = ClearPatterns(request_patterns)
    /\ Leave(t)
    /\ UNCHANGED <<failed_attempts, suspicious_ips, config, application, clock, result,
                   stats, history, span, serial>>

\* get_stats, lines 120-125
gs_enter(t) ==
    /\ Enter(t, "gs_return", NoFrame)
    /\ UNCHANGED <<tables, config, application, clock, result, history, span, serial>>

gs_return(t) ==
    /\ pc[t] = "gs_return"
    /\ stats' = Snapshot(failed_attempts, suspicious_ips, request_patterns)
    /\ Leave(t)
    /\ UNCHANGED <<tables, config, application, clock, result, history, span, serial>>

\* the monitor reads none of the application's settings: the specifications
\* of the monitor alone are explored under the default ones
DefaultSettings == ratelimit_enabled /\ signin_enabled

ThreadInit ==
    /\ Init
    /\ DefaultSettings
    /\ max_failed_attempts = 2
    /\ failed_attempt_window = 1
    /\ anomaly_threshold = 1

ThreadNext ==
    \/ Tick
    \/ \E t \in Threads, ip \in IPs : rfl_enter(t, ip)
    \/ \E t \in Threads : rfl_prune(t)
    \/ \E t \in Threads : rfl_append(t)
    \/ \E t \in Threads : rfl_check(t)
    \/ \E t \in Threads, ip \in IPs : rsl_enter(t, ip)
    \/ \E t \in Threads : rsl_unflag(t)
    \/ \E t \in Threads, ip \in IPs : thread_is_ip_suspicious(t, ip)
    \/ \E t \in Threads, ip \in IPs, ep \in Endpoints : rr_enter(t, ip, ep)
    \/ \E t \in Threads : rr_store(t)
    \/ \E t \in Threads, ip \in IPs, ep \in Endpoints : ca_enter(t, ip, ep)
    \/ \E t \in Threads : ca_test(t)
    \/ \E t \in Threads : cu_enter(t)
    \/ \E t \in Threads : cu_logs(t)
    \/ \E t \in Threads : cu_patterns(t)
    \/ \E t \in Threads : gs_enter(t)
    \/ \E t \in Threads : gs_return(t)

ThreadSpec == ThreadInit /\ [][ThreadNext]_vars

\* The two detectors share no table: login tracking never reads the request
\* patterns and request counting never reads the failure logs, so each is
\* explored with the callers of the other one silent.
LoginInit == Init /\ DefaultSettings /\ anomaly_threshold = 1

LoginNext ==
    \/ Tick
    \/ \E ip \in IPs : record_failed_login(ip)
    \/ \E ip \in IPs : record_successful_login(ip)
    \/ \E ip \in IPs : is_ip_suspicious(ip)
    \/ cleanup_old_data
    \/ get_stats

LoginSpec == LoginInit /\ [][LoginNext]_vars

AnomalyInit ==
    Init /\ DefaultSettings /\ max_failed_attempts = 1 /\ failed_attempt_window = 1

AnomalyNext ==
    \/ \E ip \in IPs, ep \in Endpoints : record_request(ip, ep)
    \/ \E ip \in IPs, ep \in Endpoints : check_anomaly(ip, ep)
    \/ cleanup_old_data
    \/ get_stats

AnomalySpec == AnomalyInit /\ [][AnomalyNext]_vars

\* ------------------------------------------------------------ application
\* extensions.py, init_extensions: the cleanup thread is started in the
\* branch that sets up the rate limiter (lines 30-45), not in the else branch
init_extensions ==
    /\ ~booted
    /\ booted' = TRUE
    /\ cleaner' = IF ratelimit_enabled THEN "sleeping" ELSE "none"
    /\ UNCHANGED <<tables, config, ratelimit_enabled, signin_enabled, guesses, gates, auth, clock,
                   result, stats, history, threads>>

\* cleanup_loop: time.sleep(60) returns
cleanup_loop_sleep ==
    /\ cleaner = "sleeping"
    /\ cleaner' = "running"
    /\ UNCHANGED <<tables, config, ratelimit_enabled, booted, signin_enabled, guesses, gates, auth,
                   clock, result, stats, history, threads>>

\* cleanup_loop: security_monitor.cleanup_old_data(), and round again
cleanup_loop_run ==
    /\ cleaner = "running"
    /\ failed_attempts' = CleanLogs(failed_attempts, clock)
    /\ request_patterns' = ClearPatterns(request_patterns)
    /\ cleaner' = "sleeping"
    /\ stats' = NoStats
    /\ gate' = [h \in Threads |-> [gate[h] EXCEPT !.ord = 0]]
    /\ cycle' = [i \in IPs |-> [e \in Endpoints |-> NoCycle]]
    /\ UNCHANGED <<suspicious_ips, config, ratelimit_enabled, booted,
                   signin_enabled, guesses, auth, clock, result, history, threads>>

\* check_security_threats() of a request from ip to endpoint ep: refuse a
\* flagged IP, else count the request and test the counter
check_security_threats(ip, ep) ==
    LET count == GetCount(request_patterns, ip, ep) + 1
    IN  /\ booted
        /\ IF IsIpSuspicious(ip)
           THEN /\ result' = TRUE
                /\ UNCHANGED request_patterns
           ELSE /\ count <= anomaly_threshold + 1   \* keeps the counter finite
                /\ request_patterns' = StoreCount(request_patterns, ip, ep, count)
                /\ result' = IsAnomalous(count)
        /\ stats' = NoStats
        /\ UNCHANGED <<failed_attempts, suspicious_ips, config, application, clock,
                       history, threads>>

\* ---- check_security_threats of request thread h, call by call
\* mutant: the suspicious-IP test is skipped
cst_begin_unscreened(h, ip, ep) ==
    /\ booted
    /\ gate[h].pc \in {"idle", "done"}
    /\ result' = IsIpSuspicious(ip)
    /\ gate' = [gate EXCEPT ![h] = [NoGate EXCEPT !.pc = "record", !.ip = ip,
                                                   !.ep = ep]]
    /\ stats' = NoStats
    /\ UNCHANGED <<tables, config, ratelimit_enabled, booted, cleaner,
                   signin_enabled, guesses, auth, cycle, clock, history, threads>>

\* lines 154-161: ip = get_ip_address(); a flagged IP is answered 429
cst_begin(h, ip, ep) ==
    /\ booted
    /\ gate[h].pc \in {"idle", "done"}
    /\ result' = IsIpSuspicious(ip)
    /\ gate' = [gate EXCEPT ![h] =
                   IF IsIpSuspicious(ip)
                   THEN [NoGate EXCEPT !.pc = "done", !.ip = ip, !.status = 429]
                   ELSE [NoGate EXCEPT !.pc = "record", !.ip = ip, !.ep = ep]]
    /\ stats' = NoStats
    /\ UNCHANGED <<tables, config, ratelimit_enabled, booted, cleaner,
                   signin_enabled, guesses, auth, cycle, clock, history, threads>>

\* lines 164-165: security_monitor.record_request(ip, endpoint)
cst_record(h) ==
    LET ip == gate[h].ip
        ep == gate[h].ep
        count == GetCount(request_patterns, ip, ep) + 1
    IN  /\ gate[h].pc = "record"
        /\ count <= anomaly_threshold + 1   \* keeps the counter finite
        /\ request_patterns' = StoreCount(request_patterns, ip, ep, count)
        /\ cycle' = [cycle EXCEPT ![ip][ep].arrived = @ + 1]
        /\ gate' = [gate EXCEPT ![h].pc = "check",
                                ![h].ord = cycle[ip][ep].arrived + 1]
        /\ stats' = NoStats
        /\ UNCHANGED <<failed_attempts, suspicious_ips, config, ratelimit_enabled,
                       booted, cleaner, signin_enabled, guesses, auth, clock, result,
                       history, threads>>

\* mutant: the counter is tested as it was before the request was recorded
cst_check_before_record(h) ==
    LET ip == gate[h].ip
        ep == gate[h].ep
        anomalous == IsAnomalous(GetCount(request_patterns, ip, ep) - 1)
    IN  /\ gate[h].pc = "check"
        /\ request_patterns' = TouchCount(request_patterns, ip, ep)
        /\ result' = anomalous
        /\ gate' = [gate EXCEPT ![h] =
                       [NoGate EXCEPT !.pc = "done",
                                      !.status = IF anomalous THEN 429 ELSE 200]]
        /\ cycle' = [cycle EXCEPT ![ip][ep].admitted =
                         IF anomalous \/ gate[h].ord = 0 THEN @ ELSE @ + 1]
        /\ stats' = NoStats
        /\ UNCHANGED <<failed_attempts, suspicious_ips, config, ratelimit_enabled,
                       booted, cleaner, signin_enabled, guesses, auth, clock, history,
                       threads>>

\* lines 168-174: if security_monitor.check_anomaly(ip, endpoint): 429; else
\* return None, the request goes on (status 200 stands for that)
cst_check(h) ==
    LET ip == gate[h].ip
        ep == gate[h].ep
        anomalous == IsAnomalous(GetCount(request_patterns, ip, ep))
    IN  /\ gate[h].pc = "check"
        /\ request_patterns' = TouchCount(request_patterns, ip, ep)
        /\ result' = anomalous
        /\ gate' = [gate EXCEPT ![h] =
                       [NoGate EXCEPT !.pc = "done",
                                      !.status = IF anomalous THEN 429 ELSE 200]]
        /\ cycle' = [cycle EXCEPT ![ip][ep].admitted =
                         IF anomalous \/ gate[h].ord = 0 THEN @ ELSE @ + 1]
        /\ stats' = NoStats
        /\ UNCHANGED <<failed_attempts, suspicious_ips, config, ratelimit_enabled,
                       booted, cleaner, signin_enabled, guesses, auth, clock, history,
                       threads>>

\* track_authentication_attempt(success) of a request from ip: the tables
\* and the return value; the caller says what else changes
track_authentication_attempt(ip, success) ==
    IF success
    THEN /\ failed_attempts' = ClearLog(failed_attempts, ip)
         /\ suspicious_ips' = Unflag(suspicious_ips, ip)
         /\ UNCHANGED result
    ELSE /\ Len(GetAttempts(failed_attempts, ip)) <= max_failed_attempts
         /\ failed_attempts' = Store(failed_attempts, ip,
                                     LoginLog(failed_attempts, ip, clock))
         /\ suspicious_ips' = FlagIp(suspicious_ips, ip,
                                ThresholdReached(LoginLog(failed_attempts, ip, clock)))
         /\ result' = ThresholdReached(LoginLog(failed_attempts, ip, clock))

\* ---- google_signin (blueprints/auth.py) of request thread h
Answer(h, code) == [auth EXCEPT ![h].pc = "done", ![h].status = code]

\* mutant: the suspicious-IP test is left out of the handler
signin_begin_unguarded(h, ip) ==
    /\ booted
    /\ auth[h].pc \in {"idle", "done"}
    /\ result' = IsIpSuspicious(ip)
    /\ auth' = [auth EXCEPT ![h] = [NoRequest EXCEPT !.pc = "enabled", !.ip = ip]]
    /\ stats' = NoStats
    /\ UNCHANGED <<tables, config, ratelimit_enabled, booted, cleaner,
                   signin_enabled, guesses, gates, clock, history, threads>>

\* lines 46-54: a flagged IP is answered 429 before anything else
signin_begin(h, ip) ==
    /\ booted
    /\ auth[h].pc \in {"idle", "done"}
    /\ result' = IsIpSuspicious(ip)
    /\ auth' = [auth EXCEPT ![h] =
                   IF IsIpSuspicious(ip)
                   THEN [NoRequest EXCEPT !.pc = "done", !.ip = ip, !.status = 429]
                   ELSE [NoRequest EXCEPT !.pc = "enabled", !.ip = ip]]
    /\ stats' = NoStats
    /\ UNCHANGED <<tables, config, ratelimit_enabled, booted, cleaner,
                   signin_enabled, guesses, gates, clock, history, threads>>

\* lines 56-57
signin_enabled_test(h) ==
    /\ auth[h].pc = "enabled"
    /\ auth' = IF signin_enabled
               THEN [auth EXCEPT ![h].pc = "verify"]
               ELSE Answer(h, 503)
    /\ UNCHANGED <<tables, config, ratelimit_enabled, booted, cleaner,
                   signin_enabled, guesses, gates, clock, result, stats, history, threads>>

\* lines 61-85: the credential is missing (400), the token is invalid (401),
\* the email is not verified (403) or no user is found (500), each after
\* track_authentication_attempt(success=False); or the user is found
signin_verify(h) ==
    /\ auth[h].pc = "verify"
    /\ \/ \E code \in {400, 401, 403, 500} :
             /\ track_authentication_attempt(auth[h].ip, FALSE)
             /\ auth' = [Answer(h, code) EXCEPT ![h].failed = @ + 1]
             /\ stats' = NoStats
       \/ /\ auth' = [auth EXCEPT ![h].pc = "track"]
          /\ UNCHANGED <<failed_attempts, suspicious_ips, result, stats>>
    /\ UNCHANGED <<request_patterns, config, ratelimit_enabled, booted, cleaner,
                   signin_enabled, guesses, gates, clock, history, threads>>

\* lines 61-81: request.get_json() or a later call raises
signin_verify_raises(h) ==
    /\ auth[h].pc = "verify"
    /\ auth' = [auth EXCEPT ![h].pc = "except"]
    /\ UNCHANGED <<tables, config, ratelimit_enabled, booted, cleaner,
                   signin_enabled, guesses, gates, clock, result, stats, history, threads>>

\* line 88: track_authentication_attempt(success=True)
signin_track(h) ==
    /\ auth[h].pc = "track"
    /\ track_authentication_attempt(auth[h].ip, TRUE)
    /\ auth' = [auth EXCEPT ![h].pc = "login", ![h].ok = @ + 1]
    /\ stats' = NoStats
    /\ UNCHANGED <<request_patterns, config, ratelimit_enabled, booted, cleaner,
                   signin_enabled, guesses, gates, clock, history, threads>>

\* lines 91-117: login_user, the audit entry, url_for and the 200 answer
signin_login(h) ==
    /\ auth[h].pc = "login"
    /\ auth' = Answer(h, 200)
    /\ UNCHANGED <<tables, config, ratelimit_enabled, booted, cleaner,
                   signin_enabled, guesses, gates, clock, result, stats, history, threads>>

\* lines 91-117: one of these calls raises (they are inside the try block)
signin_login_raises(h) ==
    /\ auth[h].pc = "login"
    /\ auth' = [auth EXCEPT ![h].pc = "except"]
    /\ UNCHANGED <<tables, config, ratelimit_enabled, booted, cleaner,
                   signin_enabled, guesses, gates, clock, result, stats, history, threads>>

\* lines 119-134: except Exception: track_authentication_attempt(False), 500
signin_except(h) ==
    /\ auth[h].pc = "except"
    /\ track_authentication_attempt(auth[h].ip, FALSE)
    /\ auth' = [Answer(h, 500) EXCEPT ![h].failed = @ + 1]
    /\ stats' = NoStats
    /\ UNCHANGED <<request_patterns, config, ratelimit_enabled, booted, cleaner,
                   signin_enabled, guesses, gates, clock, history, threads>>

\* ---- google_signin for a client whose credentials are all invalid, with
\* the verification and the tracking of its failure as the two calls they are
\* line 69: user_info = google_signin_service.verify_google_token(credential)
signin_token(h) ==
    /\ auth[h].pc = "verify"
    /\ auth' = [auth EXCEPT ![h].pc = "reject"]
    /\ guesses' = [guesses EXCEPT ![auth[h].ip] =
                       SelectSeq(Append(@, clock),
                                 LAMBDA ts : ts >= clock - failed_attempt_window)]
    /\ UNCHANGED <<tables, config, ratelimit_enabled, booted, cleaner,
                   signin_enabled, gates, clock, result, stats, history, threads>>

\* lines 71-73: if not user_info: track_authentication_attempt(False), 401
signin_reject(h) ==
    /\ auth[h].pc = "reject"
    /\ track_authentication_attempt(auth[h].ip, FALSE)
    /\ auth' = [Answer(h, 401) EXCEPT ![h].failed = @ + 1]
    /\ stats' = NoStats
    /\ UNCHANGED <<request_patterns, config, ratelimit_enabled, booted, cleaner,
                   signin_enabled, guesses, gates, clock, history, threads>>

GuessInit ==
    /\ Init
    /\ DefaultSettings
    /\ max_failed_attempts = 2
    /\ failed_attempt_window = 1
    /\ anomaly_threshold = 1

GuessNext ==
    \/ Tick
    \/ init_extensions
    \/ cleanup_loop_sleep
    \/ cleanup_loop_run
    \/ \E h \in Threads, ip \in IPs : signin_begin(h, ip)
    \/ \E h \in Threads : signin_enabled_test(h)
    \/ \E h \in Threads : signin_token(h)
    \/ \E h \in Threads : signin_reject(h)

GuessSpec == GuessInit /\ [][GuessNext]_vars

\* the handler reads RATELIMIT_ENABLED nowhere; AuthSpec is explored in the
\* setting in which the cleanup thread runs beside the requests
AuthInit ==
    /\ Init
    /\ ratelimit_enabled
    /\ max_failed_attempts = 2
    /\ failed_attempt_window = 1
    /\ anomaly_threshold = 1

AuthNext ==
    \/ Tick
    \/ init_extensions
    \/ cleanup_loop_sleep
    \/ cleanup_loop_run
    \/ \E h \in Threads, ip \in IPs : signin_begin(h, ip)
    \/ \E h \in Threads : signin_enabled_test(h)
    \/ \E h \in Threads : signin_verify(h)
    \/ \E h \in Threads : signin_verify_raises(h)
    \/ \E h \in Threads : signin_track(h)
    \/ \E h \in Threads : signin_login(h)
    \/ \E h \in Threads : signin_login_raises(h)
    \/ \E h \in Threads : signin_except(h)

AuthSpec == AuthInit /\ [][AuthNext]_vars

\* the request gate beside the cleanup thread; record_failed_login stands
\* for the login route, which is where IPs get flagged
GateInit ==
    /\ Init
    /\ DefaultSettings
    /\ max_failed_attempts = 1
    /\ failed_attempt_window = 1
    /\ anomaly_threshold = 1

GateNext ==
    \/ init_extensions
    \/ cleanup_loop_sleep
    \/ cleanup_loop_run
    \/ \E ip \in IPs : ip \notin suspicious_ips /\ record_failed_login(ip)
    \/ \E h \in Threads, ip \in IPs, ep \in Endpoints : cst_begin(h, ip, ep)
    \/ \E h \in Threads : cst_record(h)
    \/ \E h \in Threads : cst_check(h)

GateSpec == GateInit /\ [][GateNext]_vars

CleanupInit ==
    /\ Init
    /\ signin_enabled
    /\ max_failed_attempts = 1
    /\ failed_attempt_window = 1
    /\ anomaly_threshold = 1

CleanupNext ==
    \/ init_extensions
    \/ cleanup_loop_sleep
    \/ cleanup_loop_run
    \/ \E ip \in IPs, ep \in Endpoints : check_security_threats(ip, ep)

\* The cleanup thread is a thread of the operating system: when it can take
\* a step it is scheduled sooner or later, and so is the start of the
\* application.
CleanupSpec ==
    /\ CleanupInit
    /\ [][CleanupNext]_vars
    /\ WF_vars(init_extensions)
    /\ WF_vars(cleanup_loop_sleep)
    /\ WF_vars(cleanup_loop_run)

\* ------------------------------------------------------------------ claims

\* C1 (threshold trip): starting from an empty log of an IP that is not
\* flagged, with no entry expiring and no successful login in between, the
\* k-th consecutive record_failed_login(ip) returns FALSE for k below
\* max_failed_attempts and TRUE for k = max_failed_attempts; the IP is not
\* suspicious before that call and is suspicious after the last one.
ThresholdTrip ==
    [][\A ip \in IPs :
        (record_failed_login(ip) /\ clean'[ip]
            /\ run'[ip] \in 1..max_failed_attempts)
        => /\ result' = (run'[ip] = max_failed_attempts)
           /\ ~IsIpSuspicious(ip)
           /\ (ip \in suspicious_ips') = (run'[ip] = max_failed_attempts)]_vars

ThresholdTripWitness ==
    \E ip \in IPs :
        /\ max_failed_attempts > 1
        /\ clean[ip] /\ run[ip] = max_failed_attempts
        /\ Len(GetAttempts(failed_attempts, ip)) = max_failed_attempts
        /\ result /\ IsIpSuspicious(ip)

\* C2 (return value): record_failed_login(ip) returns TRUE and flags ip
\* exactly when the log, after dropping the expired entries at its head and
\* appending the current time, has at least max_failed_attempts entries;
\* otherwise it returns FALSE and the suspicious set is unchanged.
ReturnsTrueIffLogFull ==
    [][\A ip \in IPs :
        record_failed_login(ip) =>
            LET before == GetAttempts(failed_attempts, ip)
                IsOld(j) == before[j] < clock - failed_attempt_window
                dropped == CHOOSE n \in 0..Len(before) :
                              /\ \A j \in 1..n : IsOld(j)
                              /\ n < Len(before) => ~IsOld(n + 1)
                len == Len(before) - dropped + 1
            IN  /\ Len(failed_attempts'[ip]) = len
                /\ result' = (len >= max_failed_attempts)
                /\ result' => ip \in suspicious_ips'
                /\ ~result' => suspicious_ips' = suspicious_ips]_vars

ReturnsTrueIffLogFullWitness ==
    \E ip \in IPs :
        /\ Len(GetAttempts(failed_attempts, ip)) > max_failed_attempts
        /\ run[ip] = -1
        /\ result /\ IsIpSuspicious(ip)

\* C3 (pardon): record_successful_login(ip) leaves ip unflagged with an
\* empty failure history, and when it pardoned a flagged ip the next
\* record_failed_login(ip) returns FALSE (for max_failed_attempts > 1).
Pardon ==
    [][\A ip \in IPs :
        /\ record_successful_login(ip) =>
              /\ ip \notin suspicious_ips'
              /\ GetAttempts(failed_attempts', ip) = <<>>
        /\ (record_failed_login(ip) /\ pardoned[ip] /\ max_failed_attempts > 1)
              => result' = FALSE]_vars

PardonWitness ==
    \E ip \in IPs :
        /\ max_failed_attempts > 1
        /\ pardoned[ip] /\ ~IsIpSuspicious(ip)
        /\ ip \in DOMAIN failed_attempts /\ failed_attempts[ip] = <<>>

\* C4 (window expiry clears the flag), as claimed: when cleanup_old_data
\* runs while every recorded failure of a flagged ip is older than
\* failed_attempt_window, ip is not suspicious afterwards.
ExpiryClearsFlag ==
    [][cleanup_old_data =>
        \A ip \in IPs :
            LET log == GetAttempts(failed_attempts, ip)
            IN  (/\ IsIpSuspicious(ip)
                 /\ \A j \in 1..Len(log) : log[j] < clock - failed_attempt_window)
                => ip \notin suspicious_ips']_vars

\* C5 (expired failures do not count): once every recorded failure of ip has
\* expired (pruned by cleanup_old_data or by record_failed_login itself), the
\* k-th call of the fresh run returns FALSE for k below max_failed_attempts
\* and TRUE for k = max_failed_attempts.
ExpiredFailuresDoNotCount ==
    [][\A ip \in IPs :
        (record_failed_login(ip) /\ expired'[ip]
            /\ run'[ip] \in 1..max_failed_attempts)
        => result' = (run'[ip] = max_failed_attempts)]_vars

ExpiredFailuresDoNotCountWitness ==
    \E ip \in IPs :
        /\ max_failed_attempts > 1
        /\ expired[ip] /\ run[ip] = max_failed_attempts
        /\ result /\ IsIpSuspicious(ip)

\* C6 (per-IP independence): a login-tracking call for ip a changes neither
\* the failure log nor the flag of any other ip b.
PerIpIndependence ==
    [][\A a \in IPs :
        (record_failed_login(a) \/ record_successful_login(a)) =>
            \A b \in IPs \ {a} :
                /\ (b \in DOMAIN failed_attempts') = (b \in DOMAIN failed_attempts)
                /\ GetAttempts(failed_attempts', b) = GetAttempts(failed_attempts, b)
                /\ (b \in suspicious_ips') = (b \in suspicious_ips)]_vars

PerIpIndependenceWitness ==
    \E a \in IPs, b \in IPs :
        /\ a # b
        /\ pardoned[a] /\ ~IsIpSuspicious(a)
        /\ IsIpSuspicious(b)
        /\ Len(GetAttempts(failed_attempts, b)) >= max_failed_attempts

\* C7 (anomaly threshold): check_anomaly(ip, ep) returns TRUE exactly when
\* more than anomaly_threshold record_request(ip, ep) calls were made since
\* the last cleanup_old_data; calls for other IPs or endpoints do not count.
AnomalyThreshold ==
    [][\A ip \in IPs, ep \in Endpoints :
        check_anomaly(ip, ep) =>
            result' = (requests[ip][ep] > anomaly_threshold)]_vars

AnomalyThresholdWitness ==
    \E ip \in IPs, ep \in Endpoints, other \in Endpoints :
        /\ other # ep
        /\ requests[ip][ep] = anomaly_threshold + 1
        /\ phase[ip][ep] = "tripped" /\ result
        /\ requests[ip][other] = anomaly_threshold
        /\ other \in DOMAIN request_patterns[ip]
        /\ phase[ip][other] = "none"

\* C8 (tumbling reset): after check_anomaly(ip, ep) returned TRUE and
\* cleanup_old_data ran, check_anomaly(ip, ep) returns FALSE as long as no
\* record_request(ip, ep) was made in between.
TumblingReset ==
    [][\A ip \in IPs, ep \in Endpoints :
        (check_anomaly(ip, ep) /\ phase[ip][ep] = "reset")
        => result' = FALSE]_vars

TumblingResetWitness ==
    \E ip \in IPs, ep \in Endpoints :
        /\ phase[ip][ep] = "reset"
        /\ GetCount(request_patterns, ip, ep) = 0
        /\ ip \in DOMAIN request_patterns /\ ep \in DOMAIN request_patterns[ip]
        /\ ~result

\* C9 (no lost updates): when the threads have completed M
\* record_failed_login(ip) calls since the last pardon of ip, all inside one
\* failed_attempt_window, and no login-tracking call for ip is in progress,
\* the log of ip holds exactly M entries.
NoLostUpdates ==
    \A ip \in IPs :
        LET inside == {t \in Threads :
                         /\ pc[t] \in {"rfl_prune", "rfl_append", "rfl_check",
                                       "rsl_unflag"}
                         /\ frame[t].ip = ip}
        IN  (/\ inside = {}
             /\ span[ip].n > 0
             /\ clock - span[ip].first <= failed_attempt_window)
            => Len(GetAttempts(failed_attempts, ip)) = span[ip].n

NoLostUpdatesWitness ==
    \E ip \in IPs :
        /\ lock = NoThread
        /\ span[ip].by = Threads
        /\ span[ip].n >= 2
        /\ clock - span[ip].first <= failed_attempt_window
        /\ Len(GetAttempts(failed_attempts, ip)) = span[ip].n

\* C10 (single-lock serialization): at most one thread is inside a locked
\* operation and it holds the lock; the tables and the threads' local copies
\* change only in steps of the lock holder; and whenever no call is in
\* progress the tables are those that the calls made so far produce when run
\* one after the other in the order in which they took the lock.
SingleLockSerialization ==
    /\ [](\A t \in Threads, u \in Threads :
            (pc[t] # "idle" /\ pc[u] # "idle") => t = u)
    /\ [](\A t \in Threads : pc[t] # "idle" => lock = t)
    /\ [](lock = NoThread => tables = serial)
    /\ [][(tables' # tables \/ frame' # frame)
            => (lock # NoThread \/ lock' # NoThread)]_vars

SingleLockSerializationWitness ==
    \E t \in Threads, u \in Threads :
        /\ t # u
        /\ lock = t /\ pc[t] = "cu_logs" /\ pc[u] = "idle"
        /\ frame[t].todo # {} /\ frame[t].todo # DOMAIN failed_attempts
        /\ tables # serial

\* C11 (lock-free read): is_ip_suspicious(ip), which takes no lock, returns
\* the membership of ip in the suspicious set as the completed calls left it
\* when no call is in progress, and as it was before or as it will be after
\* the call in progress otherwise; it never returns anything else.
LockFreeReadIsAtomic ==
    \A ip \in IPs :
        done = [op |-> "is_ip_suspicious", ip |-> ip] =>
            IF lock = NoThread
            THEN result = (ip \in serial[2])
            ELSE result \in {ip \in flags_before, ip \in serial[2]}

LockFreeReadIsAtomicWitness ==
    /\ done.op = "is_ip_suspicious"
    /\ lock # NoThread
    /\ pc[lock] = "rsl_unflag" /\ frame[lock].ip = done.ip
    /\ done.ip \in flags_before /\ done.ip \notin serial[2]
    /\ result

\* C15 (pure reads): a step of is_ip_suspicious or of get_stats leaves the
\* failure logs, the suspicious set and the request patterns as they were,
\* whatever the argument.
ReadsChangeNothing ==
    [][(\/ \E t \in Threads, ip \in IPs : thread_is_ip_suspicious(t, ip)
        \/ \E t \in Threads : gs_enter(t) \/ gs_return(t))
       => tables' = tables]_vars

ReadsChangeNothingWitness ==
    \E t \in Threads :
        /\ pc[t] = "gs_return"
        /\ done.op = "is_ip_suspicious"
        /\ done.ip \notin DOMAIN failed_attempts
        /\ done.ip \notin suspicious_ips
        /\ done.ip \notin DOMAIN request_patterns
        /\ failed_attempts # EmptyDict /\ suspicious_ips # {}
        /\ ~result

\* C16 (successful login of an unknown IP): record_successful_login(ip) for
\* an ip with no failure log and no flag changes none of the three tables in
\* either of its statements; no empty log is created and the number of
\* monitored IPs stays the same.
SuccessOnUnknownIpIsNoOp ==
    [][\A t \in Threads, ip \in IPs :
        LET Unknown(i) == i \notin DOMAIN failed_attempts /\ i \notin suspicious_ips
            Monitored(fa) == Cardinality(DOMAIN fa)
        IN  ((rsl_enter(t, ip) /\ Unknown(ip))
                \/ (rsl_unflag(t) /\ frame[t].ip = ip /\ Unknown(ip)))
            => /\ tables' = tables
               /\ ip \notin DOMAIN failed_attempts'
               /\ Monitored(failed_attempts') = Monitored(failed_attempts)]_vars

SuccessOnUnknownIpIsNoOpWitness ==
    /\ done.op = "rsl_unflag"
    /\ lock = NoThread
    /\ done.ip \notin DOMAIN failed_attempts
    /\ done.ip \notin flags_before /\ done.ip \notin suspicious_ips
    /\ failed_attempts # EmptyDict
    /\ tables = serial

\* C18 (ordered logs): in every state reached by the threads each failure
\* log is in non-decreasing timestamp order, and a step changes a log only
\* by removing a prefix from its head or by adding one timestamp at its tail.
OrderedLogs ==
    /\ [](\A ip \in DOMAIN failed_attempts :
            \A j \in 1..(Len(failed_attempts[ip]) - 1) :
                failed_attempts[ip][j] <= failed_attempts[ip][j + 1])
    /\ [][\A ip \in IPs :
            LET old == GetAttempts(failed_attempts, ip)
                new == GetAttempts(failed_attempts', ip)
            IN  \/ new = old
                \/ \E n \in 1..Len(old) : new = SubSeq(old, n + 1, Len(old))
                \/ \E ts \in 0..MaxTime : new = Append(old, ts)]_vars

OrderedLogsWitness ==
    \E ip \in IPs :
        /\ lock = NoThread
        /\ span[ip].by = Threads
        /\ Len(GetAttempts(failed_attempts, ip)) >= 2
        /\ failed_attempts[ip][1] < failed_attempts[ip][Len(failed_attempts[ip])]

\* C12 (cleanup of the failure logs): right after cleanup_old_data every log
\* in the table is non-empty and holds only timestamps no older than
\* failed_attempt_window before the time of the cleanup, and an IP whose
\* entries had all expired has no log (it is not counted as monitored).
CleanupLeavesLiveLogs ==
    [][cleanup_old_data =>
        LET Fresh(ts) == ts >= clock - failed_attempt_window
            Live == {ip \in IPs :
                        \E j \in 1..Len(GetAttempts(failed_attempts, ip)) :
                            Fresh(failed_attempts[ip][j])}
        IN  /\ \A ip \in DOMAIN failed_attempts' :
                  /\ failed_attempts'[ip] # <<>>
                  /\ \A j \in 1..Len(failed_attempts'[ip]) :
                        Fresh(failed_attempts'[ip][j])
            /\ DOMAIN failed_attempts' = Live
            /\ Snapshot(failed_attempts', suspicious_ips',
                        request_patterns').monitored_ips = Cardinality(Live)]_vars

CleanupLeavesLiveLogsWitness ==
    \E a \in IPs, b \in IPs :
        /\ a # b
        /\ expired[b] /\ run[b] = 0 /\ b \notin DOMAIN failed_attempts
        /\ run[a] = -1 /\ a \in DOMAIN failed_attempts
        /\ failed_attempts[a][1] >= clock - failed_attempt_window
        /\ failed_attempts[a][Len(failed_attempts[a])] < clock

\* C13 (cleanup of the request patterns): right after cleanup_old_data the
\* request-pattern table has no entry for any IP or endpoint, whatever it
\* held, and get_stats counts zero patterns.
CleanupEmptiesPatterns ==
    [][cleanup_old_data =>
        /\ DOMAIN request_patterns' = {}
        /\ \A ip \in IPs, ep \in Endpoints :
              ~(ip \in DOMAIN request_patterns'
                  /\ ep \in DOMAIN request_patterns'[ip])
        /\ Snapshot(failed_attempts', suspicious_ips',
                    request_patterns').total_patterns = 0]_vars

CleanupEmptiesPatternsWitness ==
    \E ip \in IPs, ep \in Endpoints :
        /\ phase[ip][ep] = "reset"
        /\ request_patterns = EmptyDict
        /\ stats # NoStats /\ stats.total_patterns = 0

\* C14 (check_anomaly keeps the counters): check_anomaly changes the count
\* of no (ip, endpoint); called again for the same pair with no
\* record_request and no cleanup_old_data in between it returns what it
\* returned before, and once it returned TRUE it returns TRUE until
\* cleanup_old_data runs.
CheckAnomalyKeepsCounters ==
    [][\A ip \in IPs, ep \in Endpoints :
        check_anomaly(ip, ep) =>
            /\ \A i \in IPs, e \in Endpoints :
                  GetCount(request_patterns', i, e) = GetCount(request_patterns, i, e)
            /\ phase[ip][ep] = "tripped" => result'
            /\ phase[ip][ep] = "calm" => ~result']_vars

CheckAnomalyKeepsCountersWitness ==
    \E ip \in IPs, ep \in Endpoints, other \in Endpoints :
        /\ phase[ip][ep] = "tripped" /\ result
        /\ GetCount(request_patterns, ip, ep) = requests[ip][ep]
        /\ requests[ip][ep] = anomaly_threshold + 1
        /\ phase[ip][other] = "calm"
        /\ other \in DOMAIN request_patterns[ip]
        /\ request_patterns[ip][other] = 0

\* C17 (window invariant at every read), as claimed: when the threshold test
\* of record_failed_login reads the log of its IP, and when get_stats counts
\* the logs, no timestamp in the logs read is older than
\* failed_attempt_window before the current time.
WindowInvariantAtReads ==
    [][LET Fresh(ts) == ts >= clock - failed_attempt_window
       IN  /\ \A ip \in IPs :
                 record_failed_login(ip) =>
                     \A j \in 1..Len(failed_attempts'[ip]) :
                         Fresh(failed_attempts'[ip][j])
           /\ get_stats =>
                 \A ip \in DOMAIN failed_attempts :
                     \A j \in 1..Len(failed_attempts[ip]) :
                         Fresh(failed_attempts[ip][j])]_vars

\* C17, amended: the log that the threshold test of record_failed_login(ip)
\* reads holds no timestamp older than failed_attempt_window before the
\* current time.
WindowInvariantAtThresholdTest ==
    [][\A ip \in IPs :
        record_failed_login(ip) =>
            /\ failed_attempts'[ip] # <<>>
            /\ \A j \in 1..Len(failed_attempts'[ip]) :
                  /\ failed_attempts'[ip][j] >= clock - failed_attempt_window
                  /\ failed_attempts'[ip][j] <= clock
            /\ result' = (Len(failed_attempts'[ip]) >= max_failed_attempts)]_vars

WindowInvariantAtThresholdTestWitness ==
    \E ip \in IPs :
        /\ clock > failed_attempt_window
        /\ run[ip] = -1
        /\ Len(GetAttempts(failed_attempts, ip)) >= 2
        /\ failed_attempts[ip][1] = clock - failed_attempt_window
        /\ failed_attempts[ip][Len(failed_attempts[ip])] = clock

\* C19 (periodic maintenance), as claimed: in the running application,
\* whatever its settings, cleanup_old_data is invoked again and again, so
\* that every request counter that exists is removed sooner or later.
PeriodicCleanup ==
    /\ []<>(cleaner = "running")
    /\ \A ip \in IPs, ep \in Endpoints :
          (GetCount(request_patterns, ip, ep) > 0)
              ~> (GetCount(request_patterns, ip, ep) = 0)

\* C20 (one outcome per sign-in), as claimed: a google_signin request that
\* got past the suspicious-IP test and the service-enabled test has, when it
\* is answered, recorded exactly one outcome for its IP: one
\* record_failed_login or one record_successful_login, not both, not none.
ExactlyOneOutcome ==
    \A h \in Threads :
        (auth[h].pc = "done" /\ auth[h].status \notin {429, 503})
            => auth[h].failed + auth[h].ok = 1

\* C21 (consistent snapshot): the three numbers that get_stats returns are
\* the size of the suspicious set, the number of failure logs and the number
\* of (ip, endpoint) entries of one and the same state, the one that the
\* calls made so far produce in the order in which they took the lock,
\* whatever the other threads are doing.
ConsistentSnapshot ==
    done.op = "gs_return" =>
        /\ stats.suspicious_ips = Cardinality(serial[2])
        /\ stats.monitored_ips = Cardinality(DOMAIN serial[1])
        /\ stats.total_patterns =
              Cardinality({ie \in IPs \X Endpoints :
                             /\ ie[1] \in DOMAIN serial[3]
                             /\ ie[2] \in DOMAIN serial[3][ie[1]]})

ConsistentSnapshotWitness ==
    /\ done.op = "gs_return"
    /\ stats.suspicious_ips = 1
    /\ stats.monitored_ips = 1
    /\ stats.total_patterns = 0
    /\ \E ip \in IPs : ip \in suspicious_ips /\ span[ip].by = Threads

\* C22 (sliding-window equivalence): with a clock that never goes back,
\* record_failed_login(ip) at time t returns whether the failures recorded for
\* ip since its last record_successful_login, this one included, with a
\* timestamp >= t - failed_attempt_window number max_failed_attempts or more,
\* and the log it leaves is that filtered history: pruning from the head up to
\* the first entry that has not expired loses and keeps the same entries as
\* testing every entry, whatever cleanup_old_data calls fall in between.
SlidingWindowEquivalence ==
    [][\A ip \in IPs :
          record_failed_login(ip) =>
              /\ result' = (Len(ledger'[ip]) >= max_failed_attempts)
              /\ failed_attempts'[ip] = ledger'[ip]]_vars

SlidingWindowEquivalenceWitness ==
    \E ip \in IPs :
        /\ result = TRUE
        /\ expired[ip]
        /\ ip \in DOMAIN failed_attempts
        /\ failed_attempts[ip] = ledger[ip]
        /\ Len(ledger[ip]) >= max_failed_attempts
        /\ ledger[ip][1] = clock - failed_attempt_window
        /\ ledger[ip][Len(ledger[ip])] = clock

\* C24 (no zero-count entries): every (ip, endpoint) entry present in the
\* request-pattern table has a count of at least 1, so that entries come from
\* record_request alone and the table stays empty after cleanup_old_data()
\* until the next record_request, however many check_anomaly calls are made.
NoZeroCountEntries ==
    \A ip \in DOMAIN request_patterns :
        \A ep \in DOMAIN request_patterns[ip] :
            request_patterns[ip][ep] >= 1

NoEmptyLogsKept ==
    \A ip \in DOMAIN failed_attempts : failed_attempts[ip] # <<>>

\* C27 (writers of the suspicious set): the suspicious set changes in two
\* ways only: the threshold test of record_failed_login(ip) adds ip, and
\* record_successful_login(ip) removes ip.  No step of record_request,
\* check_anomaly, cleanup_old_data, is_ip_suspicious or get_stats changes it,
\* so a flagged IP stays flagged through any number of cleanups until
\* record_successful_login is called for it.
SuspiciousSetWriters ==
    [][suspicious_ips' # suspicious_ips =>
          \E t \in Threads :
              /\ pc'[t] = "idle"
              /\ \/ /\ pc[t] = "rfl_check"
                    /\ suspicious_ips' = suspicious_ips \cup {frame[t].ip}
                 \/ /\ pc[t] = "rsl_unflag"
                    /\ suspicious_ips' = suspicious_ips \ {frame[t].ip}]_vars

SuspiciousSetWritersWitness ==
    /\ done.op = "cu_logs"
    /\ \E ip \in IPs :
        /\ ip \in suspicious_ips
        /\ ip \notin DOMAIN failed_attempts
        /\ serial[1] = failed_attempts
        /\ clock > failed_attempt_window

FlaggedRequestsNotCounted ==
    [][\A h \in Threads :
          (gate[h].pc \in {"idle", "done"} /\ gate'[h] # gate[h]
              /\ gate'[h].ip \in suspicious_ips)
              => /\ gate'[h].pc = "done"
                 /\ gate'[h].status = 429
                 /\ request_patterns' = request_patterns
                 /\ cycle' = cycle]_vars

FlaggedRequestsNotCountedWitness ==
    \E h \in Threads, ep \in Endpoints :
        /\ gate[h].pc = "done"
        /\ gate[h].status = 429
        /\ gate[h].ip \in suspicious_ips
        /\ result = TRUE
        /\ GetCount(request_patterns, gate[h].ip, ep) = 1
        /\ cycle[gate[h].ip][ep].admitted = 1

\* C30 (bounded guessing under concurrency): for an IP whose credentials are
\* all invalid, google_signin hands at most max_failed_attempts credentials
\* to verify_google_token within one failed_attempt_window, also when the
\* requests of the IP are handled by several threads at once.
BoundedGuessing ==
    \A ip \in IPs : Len(guesses[ip]) <= max_failed_attempts

InFlight(ip) == {h \in Threads : auth[h].ip = ip /\ auth[h].pc \notin {"idle", "done"}}

\* C29 (the flag is permanent through the login route): a google_signin
\* request that arrives from a flagged IP is answered 429 at once, and the
\* failure logs and the suspicious set are left as they were (no
\* verification, no record_failed_login, no record_successful_login); hence
\* an IP that is flagged while no request of it is in flight stays in the
\* suspicious set, with no request of it in flight, whatever requests and
\* cleanups follow.
FlagPermanentForLogin ==
    [][/\ \A h \in Threads :
              (auth[h].pc \in {"idle", "done"} /\ auth'[h] # auth[h]
                  /\ auth'[h].ip \in suspicious_ips)
                  => /\ auth'[h].pc = "done"
                     /\ auth'[h].status = 429
                     /\ failed_attempts' = failed_attempts
                     /\ suspicious_ips' = suspicious_ips
       /\ \A ip \in IPs :
              (ip \in suspicious_ips /\ InFlight(ip) = {})
                  => (ip \in suspicious_ips' /\ InFlight(ip)' = {})]_vars

FlagPermanentForLoginWitness ==
    \E ip \in IPs, h \in Threads :
        /\ ip \in suspicious_ips
        /\ ip \notin DOMAIN failed_attempts
        /\ InFlight(ip) = {}
        /\ auth[h] = [NoRequest EXCEPT !.pc = "done", !.ip = ip, !.status = 429]
        /\ result = TRUE
        /\ clock > failed_attempt_window

====
